---- MODULE Spec2Model ----
(***************************************************************************)
(* A model of the movie search application: the App component (its state,  *)
(* the debounced search term, fetchMovies, loadTrendingMovies) and the     *)
(* Appwrite helpers updateSearchCount and getTrendingMovies.               *)
(*                                                                         *)
(* Every await of the code is a point where other handlers may run, so     *)
(* each asynchronous function is a small process: one action per           *)
(* continuation (the code between two awaits).                             *)
(***************************************************************************)
EXTENDS Naturals, Sequences, FiniteSets, TLC

\* ------------------------------------------------------------------ bounds

\* Invocations of fetchMovies in one run (the one at mount included).
MaxQueries == 4
\* The time one Tick lets pass.
TickLen == 250
\* Records in a store the trending list is loaded from, and their counts.
MaxRecords == 6
MaxCount == 3

\* --------------------------------------------------------------- constants

\* The delay handed to useDebounce.
QuietWindow == 500
\* Query.limit of getTrendingMovies.
TrendingLimit == 5

\* The texts the search box may hold.
Terms == {"", "a"}

\* JavaScript's undefined / null, and a value that is there.
Undefined == <<>>
Some(x) == <<x>>

GenericFetchError == "Failed to fetch movies"
CatchMessage == "Error fetching movies. Please try again later."
ServerError == "Request limit reached"
ImagePrefix == "https://image.tmdb.org/t/p/w500"

VARIABLES
  mounted,              \* the component's effects have run
  searchTerm,           \* useState "": what the input holds
  debouncedSearchTerm,  \* useState "": the settled term
  movieList,            \* useState []
  errorMessage,         \* useState ""
  isLoading,            \* useState false
  trendingMovies,       \* useState []: Some(list), or Undefined
  timer,                \* useDebounce's pending timeout: time left, or NoTimer
  sinceEdit,            \* time since the last edit of the input, capped at QuietWindow
  queries,              \* the invocations of fetchMovies, in the order they started
  trendingPc,           \* loadTrendingMovies: "idle", "pending", "done"
  documents,            \* the Appwrite collection, in insertion order
  completedCalls        \* history: per term, the updateSearchCount calls that
                        \* returned without an error of the store

vars == <<mounted, searchTerm, debouncedSearchTerm, movieList, errorMessage,
          isLoading, trendingMovies, timer, sinceEdit, queries, trendingPc,
          documents, completedCalls>>

uiVars == <<movieList, errorMessage, isLoading>>

NoTimer == QuietWindow + 1

Min(a, b) == IF a < b THEN a ELSE b
Monus(a, b) == IF a > b THEN a - b ELSE 0

\* ----------------------------------------------------------------- catalog

\* What the catalog holds for a term ("" is discover mode).
Catalog(term) ==
  CASE term = "a" -> << [id |-> 11, poster_path |-> Some("/a.jpg")],
                        [id |-> 12, poster_path |-> Undefined] >>
    [] term = "b" -> << [id |-> 21, poster_path |-> Undefined] >>
    [] OTHER      -> << [id |-> 31, poster_path |-> Some("/p.jpg")] >>

\* The JSON bodies a response may carry: the fields fetchMovies reads.
NoData == [Response |-> Undefined, Error |-> Undefined, results |-> Undefined]

Bodies(term) ==
  { [Response |-> Some("False"), Error |-> e, results |-> Undefined] :
        e \in {Undefined, Some(""), Some(ServerError)} }
  \cup
  { [Response |-> Undefined, Error |-> Undefined, results |-> r] :
        r \in {Undefined, Some(<<>>), Some(Catalog(term))} }

\* What the await of fetch yields: a rejection, a response with ok false, or
\* a response with ok true.
FetchOutcomes == {"reject", "notok", "ok"}

\* ------------------------------------------------------------- fetchMovies

NoDoc == [id |-> 0, count |-> 0]

\* One invocation of fetchMovies: pc is the await it is suspended at ("fetch",
\* "json", then inside updateSearchCount "list", "update" or "create") or
\* "done"; analytics tells what became of its updateSearchCount call.
NewQuery(query) ==
  [query |-> query, pc |-> "fetch", data |-> NoData, doc |-> NoDoc,
   outcome |-> "pending", analytics |-> "none"]

InFlight(i) == queries[i].pc # "done"

\* a || b on strings that may be absent: "" and undefined are falsy.
OrElse(a, b) == IF a # Undefined /\ a[1] # "" THEN a[1] ELSE b

\* data.Response === "False"
IsAppFailure(data) == data.Response = Some("False")

\* As AppFailureMessage, with the fallback in every case.
AppFailureMessageGeneric(data) == GenericFetchError

\* data.Error || "Failed to fetch movies"
AppFailureMessage(data) == OrElse(data.Error, GenericFetchError)

\* data.results || []
ResultsOrEmpty(data) == IF data.results = Undefined THEN <<>> ELSE data.results[1]

\* query && data.results.length > 0 throws when query is truthy and
\* data.results is undefined.
RecordGuardThrows(query, data) == query # "" /\ data.results = Undefined

\* As ShouldRecord, without the test of query.
ShouldRecordAnyTerm(query, data) ==
  data.results # Undefined /\ Len(data.results[1]) > 0

\* query && data.results.length > 0
ShouldRecord(query, data) ==
  query # "" /\ data.results # Undefined /\ Len(data.results[1]) > 0

\* A finished invocation that is not the latest one started: the model keeps
\* nothing of it but its place.
Forgotten ==
  [query |-> "", pc |-> "done", data |-> NoData, doc |-> NoDoc,
   outcome |-> "forgotten", analytics |-> "none"]

\* The invocations with the finished ones forgotten, the latest started
\* excepted when keepLast: of that one the term, the outcome and the fate of
\* its updateSearchCount call are kept.
Forget(qs, keepLast) ==
  [k \in 1..Len(qs) |->
     IF qs[k].pc # "done" THEN qs[k]
     ELSE IF keepLast /\ k = Len(qs) THEN [qs[k] EXCEPT !.data = NoData, !.doc = NoDoc]
     ELSE Forgotten]

\* As fetchMoviesStart, with the invocations in flight abandoned.
fetchMoviesStartCancels(query) ==
  /\ Len(queries) < MaxQueries
  /\ isLoading' = TRUE
  /\ errorMessage' = ""
  /\ queries' = Append([k \in 1..Len(queries) |-> Forgotten], NewQuery(query))
  /\ UNCHANGED movieList

\* The synchronous start of fetchMovies(query), up to the await of fetch.
fetchMoviesStart(query) ==
  /\ Len(queries) < MaxQueries
  /\ isLoading' = TRUE
  /\ errorMessage' = ""
  /\ queries' = Append(Forget(queries, FALSE), NewQuery(query))
  /\ UNCHANGED movieList

\* As Finally, without setIsLoading(false).
FinallyLeavesLoading(i, outcome, analytics) ==
  /\ UNCHANGED isLoading
  /\ queries' = Forget([queries EXCEPT ![i].pc = "done", ![i].outcome = outcome,
                                       ![i].analytics = analytics], TRUE)

\* The finally block, with which invocation i ends.
Finally(i, outcome, analytics) ==
  /\ isLoading' = FALSE
  /\ queries' = Forget([queries EXCEPT ![i].pc = "done", ![i].outcome = outcome,
                                       ![i].analytics = analytics], TRUE)

\* The catch block: it sets the message and leaves the movie list alone.
Catch ==
  /\ errorMessage' = CatchMessage
  /\ UNCHANGED movieList

\* The branch taken on data.Response === "False".
AppFailureBranch(data) ==
  /\ errorMessage' = AppFailureMessage(data)
  /\ movieList' = <<>>

\* await fetch(endpoint, API_OPTIONS) settles: a rejection and a response
\* that is not ok both end in the catch block.
FetchReturns(i, r) ==
  /\ i \in 1..Len(queries)
  /\ queries[i].pc = "fetch"
  /\ IF r = "ok"
       THEN /\ queries' = [queries EXCEPT ![i].pc = "json"]
            /\ UNCHANGED uiVars
       ELSE /\ Catch
            /\ Finally(i, "transport", "none")
  /\ UNCHANGED <<mounted, searchTerm, debouncedSearchTerm, trendingMovies,
                 timer, sinceEdit, trendingPc, documents, completedCalls>>

\* await response.json() rejects.
JsonThrows(i) ==
  /\ i \in 1..Len(queries)
  /\ queries[i].pc = "json"
  /\ Catch
  /\ Finally(i, "thrown", "none")
  /\ UNCHANGED <<mounted, searchTerm, debouncedSearchTerm, trendingMovies,
                 timer, sinceEdit, trendingPc, documents, completedCalls>>

\* await response.json() yields data with the failure flag.
JsonReturnsFailure(i, data) ==
  /\ i \in 1..Len(queries)
  /\ queries[i].pc = "json"
  /\ data \in Bodies(queries[i].query)
  /\ IsAppFailure(data)
  /\ AppFailureBranch(data)
  /\ Finally(i, "failure", "none")
  /\ UNCHANGED <<mounted, searchTerm, debouncedSearchTerm, trendingMovies,
                 timer, sinceEdit, trendingPc, documents, completedCalls>>

\* await response.json() yields data without the failure flag: the code up
\* to the await of updateSearchCount, or to the end of the function.
JsonReturnsResults(i, data) ==
  /\ i \in 1..Len(queries)
  /\ queries[i].pc = "json"
  /\ data \in Bodies(queries[i].query)
  /\ ~IsAppFailure(data)
  /\ IF RecordGuardThrows(queries[i].query, data)
       THEN /\ errorMessage' = CatchMessage
            /\ movieList' = ResultsOrEmpty(data)
            /\ Finally(i, "thrown", "none")
       ELSE IF ShouldRecord(queries[i].query, data)
         THEN /\ movieList' = ResultsOrEmpty(data)
              /\ queries' = [queries EXCEPT ![i].pc = "list", ![i].data = data,
                                            ![i].outcome = "success",
                                            ![i].analytics = "pending"]
              /\ UNCHANGED <<errorMessage, isLoading>>
         ELSE /\ movieList' = ResultsOrEmpty(data)
              /\ Finally(i, "success", "none")
              /\ UNCHANGED errorMessage
  /\ UNCHANGED <<mounted, searchTerm, debouncedSearchTerm, trendingMovies,
                 timer, sinceEdit, trendingPc, documents, completedCalls>>

\* ------------------------------------------------------- updateSearchCount

\* Query.equal("searchTerm", searchTerm): the matching documents, in order.
Matching(docs, term) == SelectSeq(docs, LAMBDA d : d.searchTerm = term)

\* `https://image.tmdb.org/t/p/w500${movie.poster_path}`: null prints as "null".
PosterUrl(movie) ==
  ImagePrefix \o (IF movie.poster_path = Undefined THEN "null" ELSE movie.poster_path[1])

\* The document createDocument stores; ID.unique() is its place in the store.
NewDocument(docs, term, movie) ==
  [id |-> Len(docs) + 1, searchTerm |-> term, count |-> 1,
   movie_id |-> movie.id, poster_url |-> PosterUrl(movie)]

\* As Updated, writing the count that was read.
UpdatedByTwo(docs, doc) == [docs EXCEPT ![doc.id].count = doc.count + 2]
UpdatedSameCount(docs, doc) == [docs EXCEPT ![doc.id].count = doc.count]

\* updateDocument(..., doc.$id, { count: doc.count + 1 })
Updated(docs, doc) == [docs EXCEPT ![doc.id].count = doc.count + 1]

\* As StoreFailure, with the error leaving updateSearchCount: it reaches the
\* catch block of fetchMovies.
StoreFailurePropagates(i) ==
  /\ Catch
  /\ Finally(i, "thrown", "failed")

\* The catch block of updateSearchCount: the error is logged, the function
\* returns and fetchMovies goes on to its finally block.
StoreFailure(i) ==
  /\ Finally(i, "success", "failed")
  /\ UNCHANGED <<movieList, errorMessage>>

\* A call of updateSearchCount for term has returned without an error.
CallCompleted(term) == [completedCalls EXCEPT ![term] = @ + 1]

\* await database.listDocuments settles. On a failure the catch block logs,
\* updateSearchCount returns and fetchMovies runs its finally block; on a
\* success the update or the create is sent.
ListDocumentsReturns(i, ok) ==
  /\ i \in 1..Len(queries)
  /\ queries[i].pc = "list"
  /\ IF ok
       THEN LET result == Matching(documents, queries[i].query) IN
            /\ queries' =
                 IF Len(result) > 0
                   THEN [queries EXCEPT ![i].pc = "update",
                           ![i].doc = [id |-> result[1].id, count |-> result[1].count]]
                   ELSE [queries EXCEPT ![i].pc = "create"]
            /\ UNCHANGED uiVars
       ELSE StoreFailure(i)
  /\ UNCHANGED <<mounted, searchTerm, debouncedSearchTerm, trendingMovies, timer,
                 sinceEdit, trendingPc, documents, completedCalls>>

\* await database.updateDocument settles; then updateSearchCount returns and
\* fetchMovies runs its finally block.
UpdateDocumentReturns(i, ok) ==
  /\ i \in 1..Len(queries)
  /\ queries[i].pc = "update"
  /\ IF ok
       THEN /\ documents' = Updated(documents, queries[i].doc)
            /\ completedCalls' = CallCompleted(queries[i].query)
            /\ Finally(i, "success", "updated")
            /\ UNCHANGED <<movieList, errorMessage>>
       ELSE /\ StoreFailure(i)
            /\ UNCHANGED <<documents, completedCalls>>
  /\ UNCHANGED <<mounted, searchTerm, debouncedSearchTerm, trendingMovies, timer,
                 sinceEdit, trendingPc>>

\* await database.createDocument settles; then as above.
CreateDocumentReturns(i, ok) ==
  /\ i \in 1..Len(queries)
  /\ queries[i].pc = "create"
  /\ IF ok
       THEN /\ documents' = Append(documents,
                                   NewDocument(documents, queries[i].query,
                                               queries[i].data.results[1][1]))
            /\ completedCalls' = CallCompleted(queries[i].query)
            /\ Finally(i, "success", "created")
            /\ UNCHANGED <<movieList, errorMessage>>
       ELSE /\ StoreFailure(i)
            /\ UNCHANGED <<documents, completedCalls>>
  /\ UNCHANGED <<mounted, searchTerm, debouncedSearchTerm, trendingMovies, timer,
                 sinceEdit, trendingPc>>

\* ------------------------------------------------------- getTrendingMovies

\* Where document d goes in a list ordered by count, descending: behind every
\* document whose count is not smaller (ties keep insertion order).
RECURSIVE InsertByCount(_, _)
InsertByCount(sorted, d) ==
  IF sorted = <<>> THEN <<d>>
  ELSE IF Head(sorted).count >= d.count
         THEN <<Head(sorted)>> \o InsertByCount(Tail(sorted), d)
         ELSE <<d>> \o sorted

\* As OrderDescCount, with the documents left in the order of the store.
OrderAsStored(docs) == docs

\* Query.orderDesc("count")
RECURSIVE OrderDescCount(_)
OrderDescCount(docs) ==
  IF docs = <<>> THEN <<>>
  ELSE InsertByCount(OrderDescCount(SubSeq(docs, 1, Len(docs) - 1)), docs[Len(docs)])

\* Query.limit(n)
Limit(docs, n) == SubSeq(docs, 1, Min(n, Len(docs)))

\* What getTrendingMovies returns: result.documents, or nothing (undefined)
\* after its catch block.
getTrendingMovies(docs, ok) ==
  IF ok THEN Some(Limit(OrderDescCount(docs), TrendingLimit)) ELSE Undefined

\* await getTrendingMovies() settles in loadTrendingMovies, which hands the
\* value to setTrendingMovies.
TrendingReturns(ok) ==
  /\ trendingPc = "pending"
  /\ trendingMovies' = getTrendingMovies(documents, ok)
  /\ trendingPc' = "done"
  /\ UNCHANGED <<mounted, searchTerm, debouncedSearchTerm, movieList, errorMessage,
                 isLoading, timer, sinceEdit, queries, documents, completedCalls>>

\* --------------------------------------------------------------------- App

\* The render reads trendingMovies.length.
RenderThrows == trendingMovies = Undefined

\* The effects of the first render: useDebounce arms its timeout,
\* fetchMovies(debouncedSearchTerm) starts, loadTrendingMovies starts.
Mount ==
  /\ ~mounted
  /\ mounted' = TRUE
  /\ timer' = QuietWindow
  /\ fetchMoviesStart(debouncedSearchTerm)
  /\ trendingPc' = "pending"
  /\ UNCHANGED <<searchTerm, debouncedSearchTerm, trendingMovies, sinceEdit, documents,
                 completedCalls>>

\* As Rearm, with the pending timeout left running.
RearmKeepsTimeout == timer

\* useDebounce on a change of searchTerm: the pending timeout is cleared and
\* a new one is set.
Rearm == QuietWindow

\* As Edit, with the effect that calls fetchMovies depending on searchTerm.
EditFetches(v) ==
  /\ mounted
  /\ v \in Terms
  /\ v # searchTerm
  /\ searchTerm' = v
  /\ timer' = QuietWindow
  /\ sinceEdit' = 0
  /\ fetchMoviesStart(v)
  /\ UNCHANGED <<mounted, debouncedSearchTerm, trendingMovies, trendingPc, documents,
                 completedCalls>>

\* onChange of the input: setSearchTerm(e.target.value) with a new value.
Edit(v) ==
  /\ mounted
  /\ v \in Terms
  /\ v # searchTerm
  /\ searchTerm' = v
  /\ timer' = Rearm
  /\ sinceEdit' = 0
  /\ UNCHANGED <<mounted, debouncedSearchTerm, movieList, errorMessage, isLoading,
                 trendingMovies, queries, trendingPc, documents, completedCalls>>

\* Time passes.
Tick ==
  /\ mounted
  /\ timer \in 1..QuietWindow \/ sinceEdit < QuietWindow
  /\ timer' = IF timer = NoTimer THEN NoTimer ELSE Monus(timer, TickLen)
  /\ sinceEdit' = Min(QuietWindow, sinceEdit + TickLen)
  /\ UNCHANGED <<mounted, searchTerm, debouncedSearchTerm, movieList, errorMessage,
                 isLoading, trendingMovies, queries, trendingPc, documents, completedCalls>>

\* As EffectRuns, for an effect that runs after every settling.
EffectRunsAlways(old, new) == TRUE

\* useEffect(..., [debouncedSearchTerm]) runs again when the dependency differs
\* from the one of the previous render.
EffectRuns(old, new) == old # new

\* As EffectQuery, with the term of the previous render.
EffectQueryStale(old, new) == old

\* The argument of fetchMovies in that effect: the debouncedSearchTerm of the
\* render the effect belongs to.
EffectQuery(old, new) == new

\* The timeout fires: setDebouncedSearchTerm(searchTerm), and the effect on
\* debouncedSearchTerm calls fetchMovies when the term has changed.
TimerFiresReloadsTrending ==
  /\ mounted
  /\ timer = 0
  /\ timer' = NoTimer
  /\ debouncedSearchTerm' = searchTerm
  /\ IF EffectRuns(debouncedSearchTerm, searchTerm)
       THEN /\ fetchMoviesStart(EffectQuery(debouncedSearchTerm, searchTerm))
            /\ trendingPc' = "pending"
       ELSE UNCHANGED <<uiVars, queries, trendingPc>>
  /\ UNCHANGED <<mounted, searchTerm, trendingMovies, sinceEdit, documents,
                 completedCalls>>

TimerFires ==
  /\ mounted
  /\ timer = 0
  /\ timer' = NoTimer
  /\ debouncedSearchTerm' = searchTerm
  /\ IF EffectRuns(debouncedSearchTerm, searchTerm)
       THEN fetchMoviesStart(EffectQuery(debouncedSearchTerm, searchTerm))
       ELSE UNCHANGED <<uiVars, queries>>
  /\ UNCHANGED <<mounted, searchTerm, trendingMovies, sinceEdit, trendingPc, documents,
                 completedCalls>>

\* What the collection holds when the page is opened: a record an earlier
\* session left for a term this session does not search.
InitialStore ==
  << [id |-> 1, searchTerm |-> "b", count |-> 2, movie_id |-> 21,
      poster_url |-> PosterUrl(Catalog("b")[1])] >>

Init ==
  /\ mounted = FALSE
  /\ searchTerm = ""
  /\ debouncedSearchTerm = ""
  /\ movieList = <<>>
  /\ errorMessage = ""
  /\ isLoading = FALSE
  /\ trendingMovies = Some(<<>>)
  /\ timer = NoTimer
  /\ sinceEdit = QuietWindow
  /\ queries = <<>>
  /\ trendingPc = "idle"
  /\ documents = InitialStore
  /\ completedCalls = [t \in Terms \ {""} |-> 0]

Next ==
  \/ Mount
  \/ \E v \in Terms : Edit(v)
  \/ Tick
  \/ TimerFires
  \/ \E i \in 1..Len(queries), r \in FetchOutcomes : FetchReturns(i, r)
  \/ \E i \in 1..Len(queries) : JsonThrows(i)
  \/ \E i \in 1..Len(queries) : \E data \in Bodies(queries[i].query) : JsonReturnsFailure(i, data)
  \/ \E i \in 1..Len(queries) : \E data \in Bodies(queries[i].query) : JsonReturnsResults(i, data)
  \/ \E i \in 1..Len(queries), ok \in BOOLEAN : ListDocumentsReturns(i, ok)
  \/ \E i \in 1..Len(queries), ok \in BOOLEAN : UpdateDocumentReturns(i, ok)
  \/ \E i \in 1..Len(queries), ok \in BOOLEAN : CreateDocumentReturns(i, ok)
  \/ \E ok \in BOOLEAN : TrendingReturns(ok)

Spec == Init /\ [][Next]_vars

\* The invocations suspended inside updateSearchCount.
Recording(qs) == {i \in 1..Len(qs) : qs[i].pc \in {"list", "update", "create"}}

\* The runs in which the calls of updateSearchCount follow one another (a
\* call starts only when no other is under way) and the store never fails.
NextSequential ==
  \/ Mount
  \/ \E v \in Terms : Edit(v)
  \/ Tick
  \/ TimerFires
  \/ \E i \in 1..Len(queries), r \in FetchOutcomes : FetchReturns(i, r)
  \/ \E i \in 1..Len(queries) : JsonThrows(i)
  \/ \E i \in 1..Len(queries) : \E data \in Bodies(queries[i].query) : JsonReturnsFailure(i, data)
  \/ \E i \in 1..Len(queries) : \E data \in Bodies(queries[i].query) :
        JsonReturnsResults(i, data) /\ Cardinality(Recording(queries')) <= 1
  \/ \E i \in 1..Len(queries) : ListDocumentsReturns(i, TRUE)
  \/ \E i \in 1..Len(queries) : UpdateDocumentReturns(i, TRUE)
  \/ \E i \in 1..Len(queries) : CreateDocumentReturns(i, TRUE)
  \/ \E ok \in BOOLEAN : TrendingReturns(ok)

SpecSequential == Init /\ [][NextSequential]_vars

\* The runs that start with a record for the term "a" already stored, with
\* count ExistingCount: every call of updateSearchCount("a", ...) finds it
\* and takes the update branch, so createDocument is never reached.
ExistingCount == 3

ExistingStore ==
  Append(InitialStore,
         [id |-> 2, searchTerm |-> "a", count |-> ExistingCount, movie_id |-> 11,
          poster_url |-> PosterUrl(Catalog("a")[1])])

InitExisting ==
  /\ mounted = FALSE
  /\ searchTerm = ""
  /\ debouncedSearchTerm = ""
  /\ movieList = <<>>
  /\ errorMessage = ""
  /\ isLoading = FALSE
  /\ trendingMovies = Some(<<>>)
  /\ timer = NoTimer
  /\ sinceEdit = QuietWindow
  /\ queries = <<>>
  /\ trendingPc = "idle"
  /\ documents = ExistingStore
  /\ completedCalls = [t \in Terms \ {""} |-> 0]

NextExisting ==
  \/ Mount
  \/ \E v \in Terms : Edit(v)
  \/ Tick
  \/ TimerFires
  \/ \E i \in 1..Len(queries), r \in FetchOutcomes : FetchReturns(i, r)
  \/ \E i \in 1..Len(queries) : JsonThrows(i)
  \/ \E i \in 1..Len(queries) : \E data \in Bodies(queries[i].query) : JsonReturnsFailure(i, data)
  \/ \E i \in 1..Len(queries) : \E data \in Bodies(queries[i].query) : JsonReturnsResults(i, data)
  \/ \E i \in 1..Len(queries), ok \in BOOLEAN : ListDocumentsReturns(i, ok)
  \/ \E i \in 1..Len(queries), ok \in BOOLEAN : UpdateDocumentReturns(i, ok)
  \/ \E ok \in BOOLEAN : TrendingReturns(ok)

SpecExisting == InitExisting /\ [][NextExisting]_vars

\* The terms of the records earlier sessions may have left.
StoredTerms == <<"b", "c", "d", "e", "f", "g", "h", "i">>

\* The stores of up to MaxRecords records, one per term, with counts up to
\* MaxCount.
Stores ==
  UNION { { [k \in 1..n |-> [id |-> k, searchTerm |-> StoredTerms[k], count |-> c[k],
                              movie_id |-> 21,
                              poster_url |-> PosterUrl(Catalog("b")[1])]] :
              c \in [1..n -> 1..MaxCount] } : n \in 0..MaxRecords }

InitTrending ==
  /\ mounted = FALSE
  /\ searchTerm = ""
  /\ debouncedSearchTerm = ""
  /\ movieList = <<>>
  /\ errorMessage = ""
  /\ isLoading = FALSE
  /\ trendingMovies = Some(<<>>)
  /\ timer = NoTimer
  /\ sinceEdit = QuietWindow
  /\ queries = <<>>
  /\ trendingPc = "idle"
  /\ documents \in Stores
  /\ completedCalls = [t \in Terms \ {""} |-> 0]

\* The runs in which the page is opened on any store and the trending list
\* is loaded from it.
NextTrending ==
  \/ Mount
  \/ \E ok \in BOOLEAN : TrendingReturns(ok)

SpecTrending == InitTrending /\ [][NextTrending]_vars

\* -------------------------------------------------------------- properties

\* C1: debouncedSearchTerm changes only in a step taken when the quiet window
\* has passed since the last edit of the input; the value it takes is the one
\* the input holds (the last edit), and no timeout is left pending, so that it
\* changes again only after another edit. No edit that a later edit followed
\* within the quiet window is ever propagated.
C1_OnlyFinalValueSettles ==
  [][debouncedSearchTerm' # debouncedSearchTerm =>
       /\ sinceEdit >= QuietWindow
       /\ debouncedSearchTerm' = searchTerm
       /\ searchTerm' = searchTerm
       /\ timer' = NoTimer]_vars

\* The quiet window after the last edit of a burst has passed: "a" had
\* settled (the second query), the input then went to "" and back to "a", and
\* "" was never propagated (no third query).
C1_Witness ==
  /\ timer = 0
  /\ sinceEdit = QuietWindow
  /\ searchTerm = "a"
  /\ debouncedSearchTerm = "a"
  /\ Len(queries) = 2

\* C2: after mount, a catalog query is started only by the step in which the
\* debounced term changes, which is taken when the quiet window has passed
\* since the last edit; that step starts exactly one query, and it is for the
\* text the input holds. No edit and no passing of time starts a query.
C2_OneQueryForFinalTerm ==
  [][/\ (mounted /\ Len(queries') # Len(queries)) =>
          /\ debouncedSearchTerm' # debouncedSearchTerm
          /\ sinceEdit >= QuietWindow
          /\ searchTerm' = searchTerm
     /\ debouncedSearchTerm' # debouncedSearchTerm =>
          /\ Len(queries') = Len(queries) + 1
          /\ queries'[Len(queries')].query = searchTerm
          /\ queries'[Len(queries')].pc = "fetch"]_vars

\* Typing has stopped, the quiet window has passed and the one query the
\* typing caused, for the final term, is in flight.
C2_Witness ==
  /\ Len(queries) = 2
  /\ queries[2].query = "a"
  /\ queries[2].pc = "fetch"
  /\ searchTerm = "a"
  /\ debouncedSearchTerm = "a"
  /\ timer = NoTimer
  /\ sinceEdit = QuietWindow

\* C3: updateSearchCount is called only by an invocation of fetchMovies whose
\* term is not empty and whose response was a success (no failure flag, no
\* exception) with at least one result.
C3_RecordOnlyNonEmptySuccess ==
  \A i \in 1..Len(queries) :
    /\ queries[i].analytics # "none" =>
         /\ queries[i].query # ""
         /\ queries[i].outcome = "success"
    /\ queries[i].pc \in {"list", "update", "create"} =>
         /\ queries[i].analytics = "pending"
         /\ ~IsAppFailure(queries[i].data)
         /\ queries[i].data.results # Undefined
         /\ Len(queries[i].data.results[1]) > 0

\* An invocation is suspended in its call of updateSearchCount.
C3_Witness ==
  \E i \in 1..Len(queries) : queries[i].pc = "list" /\ queries[i].analytics = "pending"


\* C4: when the calls of updateSearchCount follow one another and the store
\* does not fail, the store holds no record for a term before the first call
\* for it has completed and, after n calls have completed, exactly one record
\* for it, with count n; the calls create no other record.
C4_SequentialCallsCount ==
  \A t \in Terms \ {""} :
    LET records == Matching(documents, t) IN
    IF completedCalls[t] = 0
      THEN /\ records = <<>>
           /\ Len(documents) = Len(InitialStore)
      ELSE /\ Len(records) = 1
           /\ records[1].count = completedCalls[t]
           /\ Len(documents) = Len(InitialStore) + 1

\* Two calls for "a" have completed, one after the other.
C4_Witness ==
  /\ completedCalls["a"] = 2
  /\ Len(Matching(documents, "a")) = 1
  /\ Matching(documents, "a")[1].count = 2

\* C5: the store holds at most one record for each search term.
C5_OneRecordPerTerm ==
  \A j, k \in 1..Len(documents) :
    documents[j].searchTerm = documents[k].searchTerm => j = k

\* C6: a step in which a catalog query ends in a failure (fetch rejects or
\* yields a response that is not ok, response.json() rejects, or the body
\* carries the failure flag) leaves a non-empty errorMessage and an empty
\* movieList.
C6_FailureSetsMessageAndClearsMovies ==
  [][\A i \in 1..Len(queries) :
       (\/ \E r \in FetchOutcomes \ {"ok"} : FetchReturns(i, r)
        \/ JsonThrows(i)
        \/ \E data \in Bodies(queries[i].query) : JsonReturnsFailure(i, data))
       => (errorMessage' # "" /\ movieList' = <<>>)]_vars

\* C7: a step in which a body with the failure flag is handled sets
\* errorMessage to the body's Error when it holds a message (a non-empty
\* string) and to the fallback otherwise, empties movieList and sets isLoading
\* to false.
C7_AppFailureMessage ==
  [][\A i \in 1..Len(queries) : \A data \in Bodies(queries[i].query) :
       JsonReturnsFailure(i, data) =>
         /\ errorMessage' = (IF data.Error = Undefined \/ data.Error = Some("")
                               THEN GenericFetchError ELSE data.Error[1])
         /\ movieList' = <<>>
         /\ isLoading' = FALSE]_vars

\* The latest query ended with the failure flag and the server's message.
C7_Witness ==
  /\ Len(queries) >= 1
  /\ queries[Len(queries)].outcome = "failure"
  /\ errorMessage = ServerError
  /\ movieList = <<>>
  /\ ~isLoading

\* C8: every step in which an invocation of fetchMovies ends, whatever its
\* outcome, leaves isLoading false.
C8_CompletionClearsLoading ==
  [][\A i \in 1..Len(queries) :
       (queries[i].pc # "done" /\ queries'[i].pc = "done") => isLoading' = FALSE]_vars

\* The latest query ended in an exception raised while the response was
\* handled, and isLoading is false.
C8_Witness ==
  /\ Len(queries) >= 1
  /\ queries[Len(queries)].pc = "done"
  /\ queries[Len(queries)].outcome = "thrown"
  /\ ~isLoading

\* C9: trendingMovies is a sequence of records in every reachable state.
C9_TrendingIsSequence == trendingMovies # Undefined

\* C10: no step of a call of updateSearchCount, failed or not, changes
\* errorMessage or movieList; the step that makes the call has set movieList
\* to the results of the response and has set no error message.
C10_StoreNeverTouchesUi ==
  [][\A i \in 1..Len(queries) :
       /\ (queries[i].pc \in {"list", "update", "create"} /\ queries'[i].pc # queries[i].pc)
            => UNCHANGED <<errorMessage, movieList>>
       /\ (queries[i].pc = "json" /\ queries'[i].pc = "list")
            => /\ movieList' = queries'[i].data.results[1]
               /\ errorMessage' = errorMessage]_vars

\* The latest query succeeded with results, its call of updateSearchCount
\* failed in the store, and the results are shown with no error message.
C10_Witness ==
  /\ Len(queries) >= 1
  /\ queries[Len(queries)].pc = "done"
  /\ queries[Len(queries)].outcome = "success"
  /\ queries[Len(queries)].analytics = "failed"
  /\ errorMessage = ""
  /\ movieList = Catalog("a")
  /\ ~isLoading


\* C11: when the store does not fail, the list getTrendingMovies returns
\* holds min(5, number of records) records of the store, no record twice, in
\* non-increasing order of count, and no record left out has a greater count
\* than a record of the list.
C11_TrendingTopByCount ==
  (trendingPc = "done" /\ trendingMovies # Undefined) =>
    LET top == trendingMovies[1]
        ids == {top[k].id : k \in 1..Len(top)}
    IN /\ Len(top) = Min(TrendingLimit, Len(documents))
       /\ \A k \in 1..Len(top) : top[k].id \in 1..Len(documents)
                                 /\ top[k] = documents[top[k].id]
       /\ Cardinality(ids) = Len(top)
       /\ \A j, k \in 1..Len(top) : j < k => top[j].count >= top[k].count
       /\ \A d \in 1..Len(documents) : d \notin ids =>
            \A k \in 1..Len(top) : top[k].count >= documents[d].count

\* The list loaded from a store of six records, counts 1 3 2 3 1 2: five
\* records, the two of count 3 first, a record of count 1 left out.
C11_Witness ==
  /\ trendingPc = "done"
  /\ trendingMovies # Undefined
  /\ Len(documents) = 6
  /\ [k \in 1..6 |-> documents[k].count] = <<1, 3, 2, 3, 1, 2>>
  /\ [k \in 1..Len(trendingMovies[1]) |-> trendingMovies[1][k].id] = <<2, 4, 3, 6, 1>>


\* The outcomes of a catalog query that failed.
FailedOutcomes == {"transport", "thrown", "failure"}

\* C12: a catalog request is issued only by the mount and by a change of
\* debouncedSearchTerm, one request each; the step in which a request ends,
\* failed or not, issues none.
C12_NoAutomaticRetry ==
  [][/\ Len(queries') # Len(queries) =>
          /\ Len(queries') = Len(queries) + 1
          /\ ~mounted \/ debouncedSearchTerm' # debouncedSearchTerm
     /\ (~mounted /\ mounted') => Len(queries') = Len(queries) + 1
     /\ (\E i \in 1..Len(queries) : queries[i].pc # "done" /\ queries'[i].pc = "done")
          => Len(queries') = Len(queries)]_vars

\* The request for "a" has failed in transport; nothing is in flight and no
\* timeout is pending: no request follows until the input is edited.
C12_Witness ==
  /\ Len(queries) = 2
  /\ queries[2].query = "a"
  /\ queries[2].outcome = "transport"
  /\ \A i \in 1..Len(queries) : queries[i].pc = "done"
  /\ timer = NoTimer

\* C13, as stated: when the latest query, for "a", has failed, the step in
\* which the debounce settles on "a" again starts a new query for "a".
C13_ResettlingRetries ==
  [][(/\ Len(queries) \in 1..(MaxQueries - 1)
      /\ queries[Len(queries)].pc = "done"
      /\ queries[Len(queries)].outcome \in FailedOutcomes
      /\ queries[Len(queries)].query = "a"
      /\ searchTerm = "a"
      /\ timer = 0 /\ timer' = NoTimer)
     => (Len(queries') = Len(queries) + 1 /\ queries'[Len(queries')].query = "a")]_vars

\* C13, amended: when the latest query has failed, the step in which the
\* debounce settles starts no query if it settles on that query's term (the
\* settled term does not change), and one query, for the other term, if it
\* settles on another term; a new query for the failed term is started only
\* when the settled term changes back to it.
C13_RetryOnlyAfterChange ==
  [][(/\ Len(queries) \in 1..(MaxQueries - 1)
      /\ queries[Len(queries)].pc = "done"
      /\ queries[Len(queries)].outcome \in FailedOutcomes
      /\ timer = 0 /\ timer' = NoTimer)
     => /\ debouncedSearchTerm = queries[Len(queries)].query
        /\ IF searchTerm = queries[Len(queries)].query
             THEN UNCHANGED <<queries, debouncedSearchTerm, uiVars>>
             ELSE /\ Len(queries') = Len(queries) + 1
                  /\ queries'[Len(queries')].query = searchTerm]_vars

\* The query for "a" has failed, the input has been edited and holds "a"
\* again, and the quiet window has passed: the debounce is about to settle
\* on "a" (a timeout pending with searchTerm equal to the settled term means
\* the input left that term and came back).
C13_Witness ==
  /\ Len(queries) = 2
  /\ queries[2].pc = "done"
  /\ queries[2].outcome \in FailedOutcomes
  /\ queries[2].query = "a"
  /\ searchTerm = "a"
  /\ debouncedSearchTerm = "a"
  /\ errorMessage # ""
  /\ timer = 0


\* C14: the step that starts a query leaves every query in flight as it is
\* (nothing is cancelled), and the step in which any query, the latest or an
\* older one, receives a body with results sets movieList to those results:
\* the query that resolves last decides movieList.
C14_LastResolvedWins ==
  [][/\ Len(queries') = Len(queries) + 1 =>
          \A i \in 1..Len(queries) : queries[i].pc # "done" => queries'[i] = queries[i]
     /\ \A i \in 1..Len(queries) : \A data \in Bodies(queries[i].query) :
          (JsonReturnsResults(i, data) /\ data.results # Undefined)
            => movieList' = data.results[1]]_vars

\* Nothing is in flight, the settled term is "a" and its query, the latest,
\* has succeeded, and movieList holds the results of the discover query,
\* which resolved after it.
C14_Witness ==
  /\ Len(queries) >= 2
  /\ \A i \in 1..Len(queries) : queries[i].pc = "done"
  /\ debouncedSearchTerm = "a"
  /\ queries[Len(queries)].query = "a"
  /\ queries[Len(queries)].outcome = "success"
  /\ movieList = Catalog("")
  /\ ~isLoading


\* C15: on a record that exists with count ExistingCount, a call of
\* updateSearchCount writes the count its own lookup read plus one, whatever
\* other calls wrote in between, and after k completed calls the stored count
\* lies between ExistingCount + 1 and ExistingCount + k.
C15_ReadThenWrite ==
  [][/\ \A i \in 1..Len(queries) :
          (/\ queries[i].pc = "update"
           /\ queries'[i].pc = "done"
           /\ completedCalls' # completedCalls)
            => documents'[queries[i].doc.id].count = queries[i].doc.count + 1
     /\ IF completedCalls'["a"] = 0
          THEN documents'[2].count = ExistingCount
          ELSE /\ documents'[2].count >= ExistingCount + 1
               /\ documents'[2].count <= ExistingCount + completedCalls'["a"]]_vars

\* Two calls for "a" have completed, none is under way, and the count has
\* grown by one only: both lookups read before either update was written.
C15_Witness ==
  /\ completedCalls["a"] = 2
  /\ Recording(queries) = {}
  /\ documents[2].count = ExistingCount + 1


\* C16: loadTrendingMovies is invoked by the mount step and by no other: the
\* request becomes pending only in the step that mounts the component, a
\* request that has returned is never issued again, and trendingMovies
\* changes only in the step in which that one request returns; a step that
\* edits or settles the search term, advances a catalog query or writes the
\* store leaves the trending state as it is.
C16_TrendingLoadedOnce ==
  [][/\ (~mounted /\ mounted') => (trendingPc = "idle" /\ trendingPc' = "pending")
     /\ (trendingPc # "pending" /\ trendingPc' = "pending") => (~mounted /\ mounted')
     /\ trendingPc = "done" => trendingPc' = "done"
     /\ trendingMovies' # trendingMovies => (trendingPc = "pending" /\ trendingPc' = "done")
     /\ (/\ mounted
         /\ \/ searchTerm' # searchTerm
            \/ debouncedSearchTerm' # debouncedSearchTerm
            \/ queries' # queries
            \/ documents' # documents)
          => UNCHANGED <<trendingMovies, trendingPc>>]_vars

\* The trending request returned the one record stored at mount; since then
\* "a" was settled, queried and recorded in a second document, and the
\* trending state still holds what was loaded at mount.
C16_Witness ==
  /\ trendingPc = "done"
  /\ trendingMovies = Some(InitialStore)
  /\ debouncedSearchTerm = "a"
  /\ Len(documents) = 2
  /\ documents[2].searchTerm = "a"


\* C17: in every reachable state isLoading is true while at least one
\* invocation of fetchMovies has started and not yet completed.
C17_LoadingWhileInFlight ==
  (\E i \in 1..Len(queries) : InFlight(i)) => isLoading

\* C18: whenever no invocation of fetchMovies is in flight and the one
\* started last ended in success, errorMessage is empty.
C18_NoStaleError ==
  (/\ Len(queries) >= 1
   /\ \A i \in 1..Len(queries) : ~InFlight(i)
   /\ queries[Len(queries)].outcome = "success")
    => errorMessage = ""

\* C19: a call of updateSearchCount that has not answered does not keep the
\* loading state: when every invocation of fetchMovies still in flight has
\* already set movieList and waits only for the store, isLoading is false.
C19_StoreDoesNotHoldLoading ==
  (/\ Recording(queries) # {}
   /\ \A i \in 1..Len(queries) : InFlight(i) => i \in Recording(queries))
    => ~isLoading

====
